---- MODULE Spec2Model ----
(***************************************************************************)
(* Model of src/app/youtube/Player.ts: the Player component that wraps a   *)
(* YouTube player element.  The element ("handle") exposes a list of API   *)
(* method names (getApiInterface); the Player replaces every listed method *)
(* on the element by a function forwarding to Player.callApi, relays calls *)
(* and native events to a ServicePort, and puts the methods back when it   *)
(* is disposed.                                                            *)
(*                                                                         *)
(* A handler of the program is one action.  Its body is written as a       *)
(* function on a "world" record w (the element's method table, the Player  *)
(* objects, the calls made so far in the handler, the value returned and   *)
(* the exception thrown), so that the statements of the handler compose in *)
(* the order of the code and an exception skips what follows it.           *)
(***************************************************************************)
EXTENDS Integers, Sequences, FiniteSets, TLC

VARIABLES
  handle,       \* the element's method table: name -> callable
  apiList,      \* the names the element's getApiInterface() returns
  elementKind,  \* "ok" | "noInterface" (no getApiInterface) | "absent"
  players,      \* the Player objects, by adapter
  forwarders,   \* forwarding functions created so far (callers may keep them)
  discoveries,  \* calls of the element's getApiInterface(), per adapter
  restores,     \* runs of the restoring loop of disposeInternal, per adapter
  releases,     \* PlayerListenable.dispose() calls, per adapter
  last          \* the last handler run: its inputs, calls, result, exception

vars == <<handle, apiList, elementKind, players, forwarders, discoveries,
          restores, releases, last>>

----------------------------------------------------------------------------
(* Bounds of the model *)

\* Number of Player objects there can be at all.
NumAdapters == 2

\* Number of Players constructed on the element, one after the other, when
\* each owns the element alone.
SuccessivePlayers == 1

\* Native state codes range over -1 .. MaxStateCode (4 and above MaxKnown are unmapped).
MaxStateCode == 5

Adapters == 1..NumAdapters

----------------------------------------------------------------------------
(* Values *)

\* JavaScript's undefined, as a value.
Undefined == "undefined"

\* Truthiness as `!x`, `x || y` and `if (x)` see it.
Truthy(v) == v \notin {"undefined", "false", "null"}

ListenerNames == {"addEventListener", "removeEventListener"}
DataLoadNames == {"loadVideoByPlayerVars", "cueVideoByPlayerVars", "updateVideoData"}
GenericNames  == {"playVideo", "getVolume"}
Names == ListenerNames \cup {"destroy"} \cup DataLoadNames \cup GenericNames

\* A callable: a native method of the element, or a forwarding function
\* (...args) => player.callApi(key, ...args) made by the constructor of player a.
Native(n) == [k |-> "native", a |-> 0, n |-> n]
Fwd(a, n) == [k |-> "fwd", a |-> a, n |-> n]
NoCallable == [k |-> "undefined", a |-> 0, n |-> ""]

PlayerId(a) == IF a = 1 THEN "player1" ELSE IF a = 2 THEN "player2" ELSE "player3"

NoError == [kind |-> "none", id |-> ""]
TypeError == [kind |-> "TypeError", id |-> ""]

EmptyApi == [n \in {} |-> NoCallable]

\* api[name] as JavaScript reads it: undefined when the object has no such key.
ApiGet(api, n) == IF n \in DOMAIN api THEN api[n] ELSE NoCallable

\* args[i] (counted from 1), undefined beyond the end of the array.
Arg(args, i) == IF i <= Len(args) THEN args[i] ELSE Undefined

\* args after the assignment args[0] = v.
SetArg0(args, v) == IF Len(args) = 0 THEN <<v>> ELSE [args EXCEPT ![1] = v]

\* The object a Player is before its constructor has run.  `captured` keeps
\* the table getApi built (the originals) after `delete this._api`: the closure
\* of a forwarding function does not need it, the properties below do.
NoPlayer ==
  [attempted |-> FALSE, exists |-> FALSE, id |-> "", hasElement |-> FALSE,
   hasPort |-> FALSE, hasApi |-> FALSE, api |-> EmptyApi, captured |-> EmptyApi,
   hasListenable |-> FALSE, listeners |-> {}, disposed |-> FALSE,
   inDocument |-> FALSE, subscribed |-> FALSE]

----------------------------------------------------------------------------
(* The world a handler runs in *)

World ==
  [handle |-> handle, players |-> players, forwarders |-> forwarders,
   discoveries |-> discoveries, restores |-> restores, releases |-> releases,
   calls |-> <<>>, ret |-> Undefined, err |-> NoError, reenter |-> ""]

\* The world of a handler during which the port, when called on channel ch,
\* disposes the Player before it answers.
WorldDisposingOn(ch) == [World EXCEPT !.reenter = ch]

Ok(w) == w.err.kind = "none"
Throw(w, e) == [w EXCEPT !.err = e]

\* One observable call made by the handler: t is "port" (ServicePort.callSync
\* on channel ch), "native" (the element's own method ch), "listenable"
\* (a method ch of the PlayerListenable) or "preventDefault" (on the event).
Log(w, t, ch, args) ==
  [w EXCEPT !.calls = Append(@, [t |-> t, ch |-> ch, args |-> args])]

----------------------------------------------------------------------------
(* Player.getApi *)

\* api[key] = player[key]: the callable the element holds under the key when
\* getApi builds its table.
OriginalPristine(w, n) == Native(n)
Original(w, n) == w.handle[n]

\* if (!this._api): the table built by an earlier call is kept and reused.
CachedNever(p) == FALSE
Cached(p) == p.hasApi

getApi(w, a) ==
  IF Cached(w.players[a]) THEN w
  ELSE IF ~w.players[a].hasElement
    THEN Throw(w, [kind |-> "NotInitialized", id |-> w.players[a].id])
  ELSE IF elementKind # "ok"
    THEN Throw(w, [kind |-> "NoApiInterface", id |-> ""])
  ELSE [w EXCEPT !.players[a].hasApi = TRUE,
                 !.players[a].api = [n \in apiList |-> Original(w, n)],
                 !.players[a].captured = [n \in apiList |-> Original(w, n)],
                 !.discoveries[a] = @ + 1]

----------------------------------------------------------------------------
(* Player.constructor *)

\* The keys the constructor's loop replaces: for (key in api) if hasOwnProperty.
ShadowedKeysSkipOne(api) == DOMAIN api \ {"destroy"}
ShadowedKeys(api) == DOMAIN api

\* A constructor that replaces the element's methods before it has the table.
constructorShadowsFirst(w, a) ==
  LET w1 == [w EXCEPT !.players[a] =
               [NoPlayer EXCEPT !.attempted = TRUE, !.exists = TRUE,
                                !.id = PlayerId(a),
                                !.hasElement = (elementKind # "absent"),
                                !.hasPort = TRUE],
                      !.handle = [n \in Names |->
                                    IF n \in apiList THEN Fwd(a, n) ELSE w.handle[n]],
                      !.forwarders = @ \cup {Fwd(a, n) : n \in apiList}]
  IN getApi(w1, a)

constructor(w, a) ==
  LET w1 == [w EXCEPT !.players[a] =
               [NoPlayer EXCEPT !.attempted = TRUE, !.exists = TRUE,
                                !.id = PlayerId(a),
                                !.hasElement = (elementKind # "absent"),
                                !.hasPort = TRUE]]
      w2 == getApi(w1, a)
  IN IF ~Ok(w2) THEN w2
     ELSE LET keys == ShadowedKeys(w2.players[a].api) IN
          [w2 EXCEPT !.handle = [n \in Names |->
                                   IF n \in keys THEN Fwd(a, n) ELSE w2.handle[n]],
                     !.forwarders = @ \cup {Fwd(a, n) : n \in keys}]

----------------------------------------------------------------------------
(* Component.dispose / Player.disposeInternal *)

\* Component.disposeInternal: leaves the document, which releases the
\* subscriptions the component's handler holds.
superDisposeInternal(w, a) ==
  [w EXCEPT !.players[a].inDocument = FALSE, !.players[a].subscribed = FALSE]

\* The keys the restoring loop writes back.
RestoredKeysSkipOne(api) == DOMAIN api \ {"playVideo"}
RestoredKeys(api) == DOMAIN api

disposeInternal(w, a) ==
  LET w0 == superDisposeInternal(w, a)
      w1 == getApi(w0, a)
  IN IF ~Ok(w1) THEN w1
     ELSE LET api == w1.players[a].api
              w2 == [w1 EXCEPT !.handle = [n \in Names |->
                                   IF n \in RestoredKeys(api) THEN api[n]
                                   ELSE w1.handle[n]],
                               !.restores[a] = @ + 1]
              w3 == IF w2.players[a].hasListenable
                    THEN [w2 EXCEPT !.releases[a] = @ + 1,
                                    !.players[a].listeners = {}]
                    ELSE w2
          IN [w3 EXCEPT !.players[a].hasListenable = FALSE,
                        !.players[a].hasElement = FALSE,
                        !.players[a].hasApi = FALSE,
                        !.players[a].api = EmptyApi,
                        !.players[a].hasPort = FALSE]

\* Disposable.dispose: runs disposeInternal the first time only.
AlreadyDisposedNever(p) == FALSE
AlreadyDisposed(p) == p.disposed

dispose(w, a) ==
  IF AlreadyDisposed(w.players[a]) THEN w
  ELSE disposeInternal([w EXCEPT !.players[a].disposed = TRUE], a)

isDisposed(w, a) == w.players[a].disposed

----------------------------------------------------------------------------
(* ServicePort.callSync, as Player uses it: this._port.callSync(channel, ...) *)
(* The value the port returns is an input of the handler (env).              *)

callSync(w, a, ch, args) ==
  IF ~w.players[a].hasPort THEN Throw(w, TypeError)
  ELSE IF w.reenter = ch THEN dispose(Log(w, "port", ch, args), a)
  ELSE Log(w, "port", ch, args)

----------------------------------------------------------------------------
(* Player.getPlayerListenable, _addEventListener, _removeEventListener *)

getPlayerListenable(w, a) ==
  IF w.players[a].hasListenable THEN w
  ELSE LET w1 == getApi(w, a)
       IN IF ~Ok(w1) THEN w1 ELSE [w1 EXCEPT !.players[a].hasListenable = TRUE]

\* PlayerListenable.ytAddEventListener / ytRemoveEventListener.
ytAddEventListener(w, a, type, fn) ==
  [Log(w, "listenable", "ytAddEventListener", <<type, fn>>)
     EXCEPT !.players[a].listeners = @ \cup {<<type, fn>>}]

ytRemoveEventListener(w, a, type, fn) ==
  [Log(w, "listenable", "ytRemoveEventListener", <<type, fn>>)
     EXCEPT !.players[a].listeners = @ \ {<<type, fn>>}]

RECURSIVE callApi(_, _, _, _, _)

\* Calling a callable c with args: the element's native method (its result is
\* an input), or a forwarding function, which runs callApi of its Player.
CallFn(w, c, args, env) ==
  IF c.k = "native"
    THEN [Log(w, "native", c.n, args) EXCEPT !.ret = env.nativeResult]
  ELSE IF c.k = "fwd" THEN callApi(w, c.a, c.n, args, env)
  ELSE Throw(w, TypeError)

_addEventListener(w, a, type, fn, env) ==
  LET w1 == getApi(w, a)
  IN IF ~Ok(w1) THEN w1
     ELSE IF isDisposed(w1, a)
       THEN CallFn(w1, ApiGet(w1.players[a].api, "addEventListener"),
                   <<type, fn>>, env)
     ELSE LET w2 == getPlayerListenable(w1, a)
          IN IF ~Ok(w2) THEN w2 ELSE ytAddEventListener(w2, a, type, fn)

_removeEventListener(w, a, type, fn, env) ==
  LET w1 == getApi(w, a)
  IN IF ~Ok(w1) THEN w1
     ELSE IF isDisposed(w1, a)
       THEN CallFn(w1, ApiGet(w1.players[a].api, "removeEventListener"),
                   <<type, fn>>, env)
     ELSE LET w2 == getPlayerListenable(w1, a)
          IN IF ~Ok(w2) THEN w2 ELSE ytRemoveEventListener(w2, a, type, fn)

----------------------------------------------------------------------------
(* Player._fireEvent *)

\* EventType: the kinds of application events sent on "player#event".
EventType ==
  [READY |-> "ready", UNSTARTED |-> "unstarted", ENDED |-> "ended",
   PLAYED |-> "played", PAUSED |-> "paused", BUFFERING |-> "buffering",
   CUED |-> "cued", AD_UNSTARTED |-> "ad-unstarted", AD_ENDED |-> "ad-ended",
   AD_PLAYED |-> "ad-played", AD_PAUSED |-> "ad-paused",
   AD_BUFFERING |-> "ad-buffering", AD_CUED |-> "ad-cued",
   VOLUME_CHANGE |-> "volume-change", FULLSCREEN_CHANGE |-> "fullscreen-change",
   QUALITY_CHANGE |-> "quality-change", RATE_CHANGE |-> "rate-change",
   API_CHANGE |-> "api-change", ERROR |-> "error", SIZE_CHANGE |-> "size-change",
   SHARE_PANEL_OPENED |-> "share-panel-opened",
   VIDEO_DATA_CHANGE |-> "video-data-change",
   PLAYLIST_UPDATE |-> "playlist-update", CUE_RANGE_ENTER |-> "cue-range-enter",
   CUE_RANGE_EXIT |-> "cue-range-exit", CONNECTION_ISSUE |-> "connection-issue",
   SHARE_CLICKED |-> "share-clicked", LOAD_PROGRESS |-> "load-progress",
   VIDEO_PROGRESS |-> "video-progress", RELOAD_REQUIRED |-> "reload-required",
   DESTROY |-> "destroy"]

\* if (preventDefault) e.preventDefault()
SuppressAlways(response) == TRUE
Suppress(response) == Truthy(response)

_fireEvent(w, a, type, args, env) ==
  LET w1 == callSync(w, a, "player#event", <<w.players[a].id, type>> \o args)
  IN IF ~Ok(w1) THEN w1
     ELSE IF Suppress(env.event) THEN Log(w1, "preventDefault", type, <<>>)
     ELSE w1

----------------------------------------------------------------------------
(* Player.callApi *)

NoValue == [defined |-> FALSE, value |-> Undefined]

\* What the switch of callApi leaves: the world, returnValue and args.
After(w, rv, args) == [w |-> w, rv |-> rv, args |-> args]

\* args[0] = callSync("player#data-update", id, args[0]) || args[0]
TransformedDropped(response, x) == x
Transformed(response, x) == IF Truthy(response) THEN response ELSE x

\* if (!returnValue)
NoOpinionAlways(rv) == TRUE
NoOpinion(rv) == ~rv.defined

\* api[name](...args): args is the array the data-load case assigned into.
CalleeArgsOriginal(args, args1) == args
CalleeArgs(args, args1) == args1

\* case "destroy": the port's answer to the event is not kept, returnValue
\* stays undefined.
DestroyReturnValueKept(response) ==
  IF Truthy(response) THEN [defined |-> TRUE, value |-> response] ELSE NoValue
DestroyReturnValue(response) == NoValue

\* The branch of switch (name) that runs.
SwitchCaseDestroyAsDefault(name) ==
  IF name \in ListenerNames THEN name
  ELSE IF name \in DataLoadNames THEN "dataLoad"
  ELSE "default"

SwitchCase(name) ==
  IF name \in ListenerNames \cup {"destroy"} THEN name
  ELSE IF name \in DataLoadNames THEN "dataLoad"
  ELSE "default"

callApi(w, a, name, args, env) ==
  LET id == w.players[a].id
      branch == SwitchCase(name)
      s == CASE branch = "addEventListener" ->
                  After(_addEventListener(w, a, Arg(args, 1), Arg(args, 2), env),
                        NoValue, args)
             [] branch = "removeEventListener" ->
                  After(_removeEventListener(w, a, Arg(args, 1), Arg(args, 2), env),
                        NoValue, args)
             [] branch = "destroy" ->
                  After(_fireEvent(w, a, EventType.DESTROY, <<>>, env),
                        DestroyReturnValue(env.event), args)
             [] branch = "dataLoad" ->
                  LET w1 == callSync(w, a, "player#data-update",
                                     <<id, Arg(args, 1)>>)
                      args1 == SetArg0(args, Transformed(env.dataUpdate, Arg(args, 1)))
                  IN IF ~Ok(w1) THEN After(w1, NoValue, args)
                     ELSE After(callSync(w1, a, "player#api-call",
                                         <<id, name>> \o args1),
                                env.apiCall, CalleeArgs(args, args1))
             [] OTHER ->
                  After(callSync(w, a, "player#api-call", <<id, name>> \o args),
                        env.apiCall, args)
  IN IF ~Ok(s.w) THEN s.w
     ELSE IF NoOpinion(s.rv)
       THEN LET w2 == getApi(s.w, a)
            IN IF ~Ok(w2) THEN w2
               ELSE CallFn(w2, ApiGet(w2.players[a].api, name), s.args, env)
     ELSE [s.w EXCEPT !.ret = s.rv.value]

----------------------------------------------------------------------------
(* The event handlers *)

\* switch (state) of _handleStateChange: the kind, or "" for `default: return`.
StateTypeShifted(state) ==
  CASE state = 0 - 1 -> EventType.UNSTARTED
    [] state = 0 -> EventType.ENDED
    [] state = 1 -> EventType.PLAYED
    [] state = 2 -> EventType.PAUSED
    [] state = 3 -> EventType.BUFFERING
    [] state = 4 -> EventType.CUED
    [] OTHER -> ""

StateType(state) ==
  CASE state = 0 - 1 -> EventType.UNSTARTED
    [] state = 0 -> EventType.ENDED
    [] state = 1 -> EventType.PLAYED
    [] state = 2 -> EventType.PAUSED
    [] state = 3 -> EventType.BUFFERING
    [] state = 5 -> EventType.CUED
    [] OTHER -> ""

_handleStateChange(w, a, detail, env) ==
  LET type == StateType(detail)
  IN IF type = "" THEN w ELSE _fireEvent(w, a, type, <<>>, env)

\* switch (state) of _handleAdStateChange.
AdStateType(state) ==
  CASE state = 0 - 1 -> EventType.AD_UNSTARTED
    [] state = 0 -> EventType.AD_ENDED
    [] state = 1 -> EventType.AD_PLAYED
    [] state = 2 -> EventType.AD_PAUSED
    [] state = 3 -> EventType.AD_BUFFERING
    [] state = 5 -> EventType.AD_CUED
    [] OTHER -> ""

_handleAdStateChange(w, a, detail, env) ==
  LET type == AdStateType(detail)
  IN IF type = "" THEN w ELSE _fireEvent(w, a, type, <<>>, env)

_handleOnReady(w, a, detail, env) ==
  _fireEvent(w, a, EventType.READY, <<>>, env)

_handleVolumeChange(w, a, detail, env) ==
  _fireEvent(w, a, EventType.VOLUME_CHANGE, <<detail.volume, detail.muted>>, env)

_handleFullscreenChange(w, a, detail, env) ==
  _fireEvent(w, a, EventType.FULLSCREEN_CHANGE, <<detail.fullscreen>>, env)

_handlePlaybackQualityChange(w, a, detail, env) ==
  _fireEvent(w, a, EventType.QUALITY_CHANGE, <<detail>>, env)

_handlePlaybackRateChange(w, a, detail, env) ==
  _fireEvent(w, a, EventType.RATE_CHANGE, <<detail>>, env)

_handleApiChange(w, a, detail, env) ==
  _fireEvent(w, a, EventType.API_CHANGE, <<>>, env)

_handleError(w, a, detail, env) ==
  _fireEvent(w, a, EventType.ERROR, <<detail>>, env)

_handleDetailedErrorForwarded(w, a, detail, env) ==
  _fireEvent(w, a, EventType.ERROR, <<detail>>, env)

_handleDetailedError(w, a, detail, env) == w

_handleSizeClicked(w, a, detail, env) ==
  _fireEvent(w, a, EventType.SIZE_CHANGE, <<detail>>, env)

_handleSharePanelOpened(w, a, detail, env) ==
  _fireEvent(w, a, EventType.SHARE_PANEL_OPENED, <<>>, env)

_handlePlaybackAudioChange(w, a, detail, env) == w

_handleVideoDataChangeSwapped(w, a, detail, env) ==
  _fireEvent(w, a, EventType.VIDEO_DATA_CHANGE, <<detail.playertype, detail.type>>, env)

_handleVideoDataChange(w, a, detail, env) ==
  _fireEvent(w, a, EventType.VIDEO_DATA_CHANGE, <<detail.type, detail.playertype>>, env)

_handlePlaylistUpdate(w, a, detail, env) ==
  _fireEvent(w, a, EventType.PLAYLIST_UPDATE, <<>>, env)

_handleCueRangeEnter(w, a, detail, env) ==
  _fireEvent(w, a, EventType.CUE_RANGE_ENTER, <<detail>>, env)

_handleCueRangeExit(w, a, detail, env) ==
  _fireEvent(w, a, EventType.CUE_RANGE_EXIT, <<detail>>, env)

_handleCueRangeMarkersUpdated(w, a, detail, env) == w

_handleCueRangesAdded(w, a, detail, env) == w

_handleCueRangesRemoved(w, a, detail, env) == w

_handleConnectionIssue(w, a, detail, env) ==
  _fireEvent(w, a, EventType.CONNECTION_ISSUE, <<>>, env)

_handleShareClicked(w, a, detail, env) ==
  _fireEvent(w, a, EventType.SHARE_CLICKED, <<>>, env)

_handleWatchLaterVideoAdded(w, a, detail, env) == w

_handleWatchLaterVideoRemoved(w, a, detail, env) == w

_handleWatchLaterError(w, a, detail, env) == w

_handleLoadProgress(w, a, detail, env) ==
  _fireEvent(w, a, EventType.LOAD_PROGRESS, <<detail>>, env)

_handleVideoProgress(w, a, detail, env) ==
  _fireEvent(w, a, EventType.VIDEO_PROGRESS, <<detail>>, env)

_handleReloadRequired(w, a, detail, env) ==
  _fireEvent(w, a, EventType.RELOAD_REQUIRED, <<>>, env)

\* The native event names enterDocument listens to; the last three are bound
\* to console.log.
NativeEvents ==
  {"onReady", "onStateChange", "onVolumeChange", "onFullscreenChange",
   "onPlaybackQualityChange", "onPlaybackRateChange", "onApiChange",
   "onError", "onDetailedError", "SIZE_CLICKED", "onAdStateChange",
   "onSharePanelOpened", "onPlaybackAudioChange", "onVideoDataChange",
   "onPlaylistUpdate", "onCueRangeEnter", "onCueRangeExit",
   "onCueRangeMarkersUpdated", "onCueRangesAdded", "onCueRangesRemoved",
   "CONNECTION_ISSUE", "SHARE_CLICKED", "WATCH_LATER_VIDEO_ADDED",
   "WATCH_LATER_VIDEO_REMOVED", "WATCH_LATER_ERROR", "onLoadProgress",
   "onVideoProgress", "onReloadRequired", "onPlayVideo",
   "onPlaylistNext", "onPlaylistPrevious"}

\* The handler enterDocument binds to each native event name.
handleEvent(w, a, ev, detail, env) ==
  CASE ev = "onReady" -> _handleOnReady(w, a, detail, env)
    [] ev = "onStateChange" -> _handleStateChange(w, a, detail, env)
    [] ev = "onVolumeChange" -> _handleVolumeChange(w, a, detail, env)
    [] ev = "onFullscreenChange" -> _handleFullscreenChange(w, a, detail, env)
    [] ev = "onPlaybackQualityChange" -> _handlePlaybackQualityChange(w, a, detail, env)
    [] ev = "onPlaybackRateChange" -> _handlePlaybackRateChange(w, a, detail, env)
    [] ev = "onApiChange" -> _handleApiChange(w, a, detail, env)
    [] ev = "onError" -> _handleError(w, a, detail, env)
    [] ev = "onDetailedError" -> _handleDetailedError(w, a, detail, env)
    [] ev = "SIZE_CLICKED" -> _handleSizeClicked(w, a, detail, env)
    [] ev = "onAdStateChange" -> _handleAdStateChange(w, a, detail, env)
    [] ev = "onSharePanelOpened" -> _handleSharePanelOpened(w, a, detail, env)
    [] ev = "onPlaybackAudioChange" -> _handlePlaybackAudioChange(w, a, detail, env)
    [] ev = "onVideoDataChange" -> _handleVideoDataChange(w, a, detail, env)
    [] ev = "onPlaylistUpdate" -> _handlePlaylistUpdate(w, a, detail, env)
    [] ev = "onCueRangeEnter" -> _handleCueRangeEnter(w, a, detail, env)
    [] ev = "onCueRangeExit" -> _handleCueRangeExit(w, a, detail, env)
    [] ev = "onCueRangeMarkersUpdated" -> _handleCueRangeMarkersUpdated(w, a, detail, env)
    [] ev = "onCueRangesAdded" -> _handleCueRangesAdded(w, a, detail, env)
    [] ev = "onCueRangesRemoved" -> _handleCueRangesRemoved(w, a, detail, env)
    [] ev = "CONNECTION_ISSUE" -> _handleConnectionIssue(w, a, detail, env)
    [] ev = "SHARE_CLICKED" -> _handleShareClicked(w, a, detail, env)
    [] ev = "WATCH_LATER_VIDEO_ADDED" -> _handleWatchLaterVideoAdded(w, a, detail, env)
    [] ev = "WATCH_LATER_VIDEO_REMOVED" -> _handleWatchLaterVideoRemoved(w, a, detail, env)
    [] ev = "WATCH_LATER_ERROR" -> _handleWatchLaterError(w, a, detail, env)
    [] ev = "onLoadProgress" -> _handleLoadProgress(w, a, detail, env)
    [] ev = "onVideoProgress" -> _handleVideoProgress(w, a, detail, env)
    [] ev = "onReloadRequired" -> _handleReloadRequired(w, a, detail, env)
    [] OTHER -> w

\* Component.enterDocument.
superEnterDocument(w, a) == [w EXCEPT !.players[a].inDocument = TRUE]

enterDocument(w, a) ==
  LET w1 == getPlayerListenable(superEnterDocument(w, a), a)
  IN IF ~Ok(w1) THEN w1 ELSE [w1 EXCEPT !.players[a].subscribed = TRUE]

----------------------------------------------------------------------------
(* Inputs *)

\* The lists getApiInterface() may return.
ApiLists == {Names, Names \ {"getVolume", "updateVideoData"}}

NoEnv ==
  [dataUpdate |-> Undefined, apiCall |-> NoValue, event |-> Undefined,
   nativeResult |-> Undefined]

\* What the port may answer on "player#data-update": nothing, or a PlayerData.
DataResponses == {Undefined, "data2"}
\* ... on "player#api-call": nothing, or an object {value: ...}.
ApiResponses ==
  {NoValue, [defined |-> TRUE, value |-> "portValue"],
   [defined |-> TRUE, value |-> Undefined]}
\* ... on "player#event": a boolean, or nothing.
EventResponses == {"true", "false", Undefined}
\* What a native method of the element may return.
NativeResults == {"nativeResult"}

\* The answers that an invoke of `name` can read.
EnvsFor(name) ==
  {[dataUpdate |-> d, apiCall |-> r, event |-> e, nativeResult |-> v] :
     d \in (IF name \in DataLoadNames THEN DataResponses ELSE {Undefined}),
     r \in (IF name \in DataLoadNames \cup GenericNames THEN ApiResponses
            ELSE {NoValue}),
     e \in (IF name = "destroy" THEN EventResponses ELSE {Undefined}),
     v \in NativeResults}

ArgsFor(name) ==
  IF name \in ListenerNames
    THEN {<<t, "fn1">> : t \in {"onReady", "onStateChange"}}
  ELSE IF name \in DataLoadNames THEN {<<"data1">>, <<>>}
  ELSE {<<>>, <<"arg1">>}

\* e.detail of a native event.
DetailsFor(ev) ==
  IF ev \in {"onStateChange", "onAdStateChange"} THEN (0 - 1)..MaxStateCode
  ELSE IF ev = "onVolumeChange"
    THEN {[volume |-> "50", muted |-> "false"]}
  ELSE IF ev = "onFullscreenChange"
    THEN {[fullscreen |-> "1", time |-> "10", videoId |-> "video1"]}
  ELSE IF ev = "onVideoDataChange"
    THEN {[playertype |-> "1", type |-> "newdata"]}
  ELSE {"detail1"}

----------------------------------------------------------------------------
(* The state machine *)

\* What `last` keeps of the state a handler started in.
Pre(a) ==
  [handle |-> handle, disposed |-> players[a].disposed,
   restores |-> restores[a], releases |-> releases[a],
   discoveries |-> discoveries[a]]

\* The answers the handler did receive: the port answers on a channel, and a
\* native method returns, only if the handler called it.
Received(env, calls) ==
  LET called(t, ch) == \E i \in 1..Len(calls) : calls[i].t = t /\ calls[i].ch = ch
  IN [dataUpdate |-> IF called("port", "player#data-update")
                     THEN env.dataUpdate ELSE Undefined,
      apiCall |-> IF called("port", "player#api-call") THEN env.apiCall ELSE NoValue,
      event |-> IF called("port", "player#event") THEN env.event ELSE Undefined,
      nativeResult |-> IF \E i \in 1..Len(calls) : calls[i].t = "native"
                       THEN env.nativeResult ELSE Undefined]

Ran(op, a, name, args, detail, env, w) ==
  [op |-> op, a |-> a, name |-> name, args |-> args, detail |-> detail,
   env |-> Received(env, w.calls), calls |-> w.calls, ret |-> w.ret,
   err |-> w.err, pre |-> Pre(a), reenter |-> w.reenter]

Commit(w) ==
  /\ handle' = w.handle
  /\ forwarders' = w.forwarders
  /\ discoveries' = w.discoveries
  /\ restores' = w.restores
  /\ releases' = w.releases

Init ==
  /\ handle = [n \in Names |-> Native(n)]
  /\ apiList \in ApiLists
  /\ elementKind \in {"ok", "noInterface", "absent"}
  /\ players = [a \in Adapters |-> NoPlayer]
  /\ forwarders = {}
  /\ discoveries = [a \in Adapters |-> 0]
  /\ restores = [a \in Adapters |-> 0]
  /\ releases = [a \in Adapters |-> 0]
  /\ last = [op |-> "none", a |-> 0, name |-> "", args |-> <<>>,
             detail |-> Undefined, env |-> NoEnv, calls |-> <<>>,
             ret |-> Undefined, err |-> NoError,
             pre |-> [handle |-> handle, disposed |-> FALSE, restores |-> 0,
                      releases |-> 0, discoveries |-> 0],
             reenter |-> ""]

\* Players are numbered in the order they are constructed.
NextToConstruct(a) ==
  /\ ~players[a].attempted
  /\ \A b \in Adapters : b < a => players[b].attempted

\* The element is owned by one Player at a time: a Player is constructed on it
\* only when every earlier one is disposed.
Exclusive(a) ==
  /\ a <= SuccessivePlayers
  /\ \A b \in Adapters : players[b].exists => players[b].disposed

\* The handler's effects become the next state.
Finish(op, a, name, args, detail, env, w) ==
  /\ Commit(w)
  /\ players' = w.players
  /\ last' = Ran(op, a, name, args, detail, env, w)
  /\ UNCHANGED <<apiList, elementKind>>

\* A constructor that throws leaves no object.
Constructed(a, w) ==
  IF Ok(w) THEN w
  ELSE [w EXCEPT !.players[a] = [NoPlayer EXCEPT !.attempted = TRUE]]

\* new Player(id, element, playerConfig, port)
Construct(a) ==
  /\ NextToConstruct(a)
  /\ Exclusive(a)
  /\ Finish("construct", a, "", <<>>, Undefined, NoEnv,
            Constructed(a, constructor(World, a)))

\* new Player(id, element, playerConfig, port) on an element that a Player
\* constructed earlier may still be shadowing.
ConstructShared(a) ==
  /\ NextToConstruct(a)
  /\ Finish("construct", a, "", <<>>, Undefined, NoEnv,
            Constructed(a, constructor(World, a)))

\* player.dispose()
Dispose(a) ==
  /\ players[a].exists
  /\ Finish("dispose", a, "", <<>>, Undefined, NoEnv, dispose(World, a))

\* player.enterDocument()
EnterDocument(a) ==
  /\ players[a].exists
  /\ ~players[a].inDocument
  /\ Finish("enterDocument", a, "", <<>>, Undefined, NoEnv,
            enterDocument(World, a))

\* A caller runs a forwarding function of Player a (the element's current
\* method, or one the caller kept from before a disposal).
Invoke(a, name) ==
  /\ Fwd(a, name) \in forwarders
  /\ \E args \in ArgsFor(name), env \in EnvsFor(name) :
       Finish("invoke", a, name, args, Undefined, env,
              callApi(World, a, name, args, env))

\* The element fires a native event that Player a is subscribed to.
EventEnv(response) == [NoEnv EXCEPT !.event = response]

NativeEvent(a, ev) ==
  /\ players[a].subscribed
  /\ \E detail \in DetailsFor(ev), response \in EventResponses :
       Finish("event", a, ev, <<>>, detail, EventEnv(response),
              handleEvent(World, a, ev, detail, EventEnv(response)))

\* A function the page or the player puts in place of a method of the element,
\* and the method it replaces.
Replacement == Native("replacement")
ReplaceableNames == {"playVideo"}

\* The element changes under a live Player: getApiInterface() would now return
\* another list, or one of the element's properties is assigned another
\* function.
ElementChange ==
  /\ \E a \in Adapters : players[a].exists /\ ~players[a].disposed
  /\ \/ /\ apiList' \in ApiLists \ {apiList}
        /\ UNCHANGED handle
     \/ /\ \E n \in ReplaceableNames :
             /\ handle[n] # Replacement
             /\ handle' = [handle EXCEPT ![n] = Replacement]
        /\ UNCHANGED apiList
  /\ last' = [op |-> "elementChange", a |-> 0, name |-> "", args |-> <<>>,
              detail |-> Undefined, env |-> NoEnv, calls |-> <<>>,
              ret |-> Undefined, err |-> NoError,
              pre |-> [handle |-> handle, disposed |-> FALSE, restores |-> 0,
                       releases |-> 0, discoveries |-> 0],
              reenter |-> ""]
  /\ UNCHANGED <<elementKind, players, forwarders, discoveries, restores,
                 releases>>

\* The channels callApi calls the port on for `name`.
ChannelsFor(name) ==
  IF name \in DataLoadNames THEN {"player#data-update", "player#api-call"}
  ELSE IF name = "destroy" THEN {"player#event"}
  ELSE IF name \in ListenerNames THEN {}
  ELSE {"player#api-call"}

\* An invoke during which the port, called on channel ch, disposes the Player.
InvokeReentrant(a, name) ==
  /\ Fwd(a, name) \in forwarders
  /\ ~players[a].disposed
  /\ \E ch \in ChannelsFor(name), args \in ArgsFor(name), env \in EnvsFor(name) :
       Finish("invoke", a, name, args, Undefined, env,
              callApi(WorldDisposingOn(ch), a, name, args, env))

\* A native event during whose forwarding the port disposes the Player.
NativeEventReentrant(a, ev) ==
  /\ players[a].subscribed
  /\ \E detail \in DetailsFor(ev), response \in EventResponses :
       Finish("event", a, ev, <<>>, detail, EventEnv(response),
              handleEvent(WorldDisposingOn("player#event"), a, ev, detail,
                          EventEnv(response)))

Next ==
  \/ \E a \in Adapters : Construct(a)
  \/ \E a \in Adapters : Dispose(a)
  \/ \E a \in Adapters : EnterDocument(a)
  \/ \E a \in Adapters, name \in Names : Invoke(a, name)
  \/ \E a \in Adapters, ev \in NativeEvents : NativeEvent(a, ev)

Spec == Init /\ [][Next]_vars

\* The same, with a port that may dispose the Player while it is being called.
NextReentrant ==
  \/ Next
  \/ \E a \in Adapters, name \in Names : InvokeReentrant(a, name)
  \/ \E a \in Adapters, ev \in NativeEvents : NativeEventReentrant(a, ev)

SpecReentrant == Init /\ [][NextReentrant]_vars

\* Players constructed on one element with no regard for each other.
NextShared ==
  \/ \E a \in Adapters : ConstructShared(a)
  \/ \E a \in Adapters : Dispose(a)
  \/ \E a \in Adapters, name \in Names : Invoke(a, name)

SpecShared == Init /\ [][NextShared]_vars

\* The same as Spec, with an element that changes under the Player.
NextElementChanges == Next \/ ElementChange

SpecElementChanges == Init /\ [][NextElementChanges]_vars

----------------------------------------------------------------------------
(* Properties *)

Live(a) == players[a].exists /\ ~players[a].disposed

\* The calls of the last handler of kind t on channel ch.
CallsOn(t, ch) == SelectSeq(last.calls, LAMBDA c : c.t = t /\ c.ch = ch)
CallsOfKind(t) == SelectSeq(last.calls, LAMBDA c : c.t = t)
PortCall(ch, args) == [t |-> "port", ch |-> ch, args |-> args]
NativeCall(n, args) == [t |-> "native", ch |-> n, args |-> args]

\* C1: while a Player is constructed and not disposed, every name that
\* getApiInterface() returns is bound on the element to the forwarding function
\* of that Player for that name, which is not the original callable.
C1_Shadowed ==
  \A a \in Adapters :
    Live(a) =>
      \A n \in apiList :
        /\ handle[n] = Fwd(a, n)
        /\ handle[n] # players[a].captured[n]

C1_Witness ==
  /\ Live(1)
  /\ last.op = "invoke"
  /\ last.name = "destroy"
  /\ handle["destroy"] = Fwd(1, "destroy")

\* C2: once a Player is disposed (and no other Player has taken the element
\* since), every name it shadowed is bound on the element to the very callable
\* getApi captured before shadowing, whatever invokes and events came between.
C2_Restored ==
  \A a \in Adapters :
    (players[a].disposed /\ \A b \in Adapters : b # a => ~Live(b)) =>
      \A n \in Names :
        Fwd(a, n) \in forwarders => handle[n] = players[a].captured[n]

C2_Witness ==
  /\ last.op = "dispose"
  /\ last.a = 1
  /\ players[1].disposed
  /\ releases[1] = 1
  /\ Fwd(1, "playVideo") \in forwarders
  /\ handle["playVideo"] = Native("playVideo")

\* What C3 says of one invoke of a name with no special handling.
C3_Body ==
  /\ CallsOn("port", "player#api-call") =
       << PortCall("player#api-call",
                   <<PlayerId(last.a), last.name>> \o last.args) >>
  /\ IF ~last.env.apiCall.defined
       THEN /\ CallsOfKind("native") = << NativeCall(last.name, last.args) >>
            /\ last.err = NoError
            /\ last.ret = last.env.nativeResult
       ELSE /\ CallsOfKind("native") = << >>
            /\ last.err = NoError
            /\ last.ret = last.env.apiCall.value

\* C3 as stated: every invoke of such a name, in any state of the Player.
C3_AnyState ==
  (last.op = "invoke" /\ last.name \in GenericNames) => C3_Body

\* C3, amended: while the Player is not disposed, an invoke of a name with no
\* special handling makes exactly one port call on "player#api-call" with
\* (id, name, ...args); with no answer the original is called once with the
\* same args and its result returned, otherwise the port's value is returned
\* and the original is not called.
C3_GenericInvoke ==
  (last.op = "invoke" /\ last.name \in GenericNames /\ ~last.pre.disposed)
    => C3_Body

C3_Witness ==
  /\ last.op = "invoke"
  /\ last.name = "playVideo"
  /\ ~last.pre.disposed
  /\ ~last.env.apiCall.defined
  /\ last.ret = "nativeResult"
  /\ Len(last.calls) = 2

\* What C4 says of one invoke of a data-load name.
C4_Body ==
  LET x == Arg(last.args, 1)
      sent == IF last.env.dataUpdate # Undefined THEN last.env.dataUpdate ELSE x
      rest == IF Len(last.args) = 0 THEN << >> ELSE Tail(last.args)
  IN /\ Len(last.calls) >= 2
     /\ last.calls[1] = PortCall("player#data-update", <<PlayerId(last.a), x>>)
     /\ last.calls[2] = PortCall("player#api-call",
                                 <<PlayerId(last.a), last.name, sent>> \o rest)
     /\ Len(CallsOfKind("port")) = 2

\* C4 as stated: every invoke of a data-load name, in any state of the Player.
C4_AnyState ==
  (last.op = "invoke" /\ last.name \in DataLoadNames) => C4_Body

\* C4, amended: while the Player is not disposed, an invoke of a data-load name
\* calls the port on "player#data-update" with (id, X) first and on
\* "player#api-call" afterwards, and the first argument of the api-call is the
\* value data-update returned, or X when it returned none.
C4_DataLoadInvoke ==
  (last.op = "invoke" /\ last.name \in DataLoadNames /\ ~last.pre.disposed)
    => C4_Body

C4_Witness ==
  /\ last.op = "invoke"
  /\ last.name = "loadVideoByPlayerVars"
  /\ ~last.pre.disposed
  /\ last.env.dataUpdate = "data2"
  /\ last.args = <<"data1">>
  /\ Len(last.calls) >= 2
  /\ last.calls[2].args = <<PlayerId(last.a), "loadVideoByPlayerVars", "data2">>

\* What C5 says of one invoke of destroy.
C5_Body ==
  /\ CallsOn("port", "player#event") =
       << PortCall("player#event", <<PlayerId(last.a), "destroy">>) >>
  /\ CallsOn("port", "player#api-call") = << >>

\* C5 as stated: every invoke of destroy, in any state of the Player.
C5_AnyState ==
  (last.op = "invoke" /\ last.name = "destroy") => C5_Body

\* C5, amended: while the Player is not disposed, an invoke of destroy makes
\* exactly one port call on "player#event", carrying (id, destroy), and no port
\* call on "player#api-call".
C5_DestroyInvoke ==
  (last.op = "invoke" /\ last.name = "destroy" /\ ~last.pre.disposed)
    => C5_Body

C5_Witness ==
  /\ last.op = "invoke"
  /\ last.name = "destroy"
  /\ ~last.pre.disposed
  /\ Len(CallsOn("port", "player#event")) = 1

\* The kinds C6 names for the codes -1, 0, 1, 2, 3, (4), 5, in that order.
C6_Kinds == <<"unstarted", "ended", "played", "paused", "buffering", "", "cued">>
C6_AdKinds ==
  <<"ad-unstarted", "ad-ended", "ad-played", "ad-paused", "ad-buffering", "",
    "ad-cued">>
C6_MappedCodes == {-1, 0, 1, 2, 3, 5}

\* C6: a native state-change event with code c forwards exactly one event to
\* the port, of kind unstarted, ended, played, paused, buffering, cued for c =
\* -1, 0, 1, 2, 3, 5; for any other code nothing is forwarded and the event is
\* not default-prevented.  The same for ad-state-change with the ad- kinds.
C6_StateChange ==
  (last.op = "event" /\ last.name \in {"onStateChange", "onAdStateChange"}) =>
    LET c == last.detail
        kinds == IF last.name = "onStateChange" THEN C6_Kinds ELSE C6_AdKinds
    IN IF c \in C6_MappedCodes
         THEN CallsOfKind("port") =
                << PortCall("player#event", <<PlayerId(last.a), kinds[c + 2]>>) >>
         ELSE last.calls = << >>

C6_Witness ==
  /\ last.op = "event"
  /\ last.name = "onAdStateChange"
  /\ last.detail = 5
  /\ Len(CallsOfKind("port")) = 1
  /\ last.calls[1].args[2] = "ad-cued"

\* C7: for a forwarded native event, preventDefault is called on the event if
\* and only if the port answered true on "player#event"; false or no answer
\* leaves the event alone.
C7_PreventDefault ==
  (last.op = "event" /\ CallsOn("port", "player#event") # << >>) =>
    /\ Len(CallsOfKind("preventDefault")) <= 1
    /\ (CallsOfKind("preventDefault") # << >>) <=> (last.env.event = "true")

C7_Witness ==
  /\ last.op = "event"
  /\ last.name = "onVolumeChange"
  /\ last.env.event = "true"
  /\ Len(CallsOfKind("preventDefault")) = 1

\* C8: disposing a disposed Player throws nothing, restores nothing a second
\* time, releases nothing a second time, and leaves the element's method table
\* as the first disposal left it.
C8_Idempotent ==
  /\ (last.op = "dispose" /\ last.pre.disposed) =>
       /\ last.err = NoError
       /\ handle = last.pre.handle
       /\ restores[last.a] = last.pre.restores
       /\ releases[last.a] = last.pre.releases
  /\ \A a \in Adapters : restores[a] <= 1 /\ releases[a] <= 1

C8_Witness ==
  /\ last.op = "dispose"
  /\ last.pre.disposed
  /\ restores[last.a] = 1
  /\ releases[last.a] = 1

\* C9: on a disposed Player, invoke of addEventListener / removeEventListener
\* (through a forwarding function kept from before the disposal) calls the
\* native listener method captured at discovery and throws nothing.
C9_DisposedListenerDelegates ==
  (last.op = "invoke" /\ last.name \in ListenerNames /\ last.pre.disposed) =>
    /\ last.err = NoError
    /\ \E i \in 1..Len(last.calls) :
         last.calls[i] = NativeCall(last.name, last.args)

\* C10: while the Player is not disposed, invoke of addEventListener /
\* removeEventListener goes through the PlayerListenable and the native
\* (pre-shadow) listener method is not called for that invoke.
C10_LiveListenerNotNative ==
  (last.op = "invoke" /\ last.name \in ListenerNames /\ ~last.pre.disposed) =>
    /\ CallsOfKind("listenable") =
         << [t |-> "listenable",
             ch |-> IF last.name = "addEventListener"
                    THEN "ytAddEventListener" ELSE "ytRemoveEventListener",
             args |-> last.args] >>
    /\ CallsOfKind("native") = << >>

\* C11: when the port disposes the Player while the Player is calling it
\* (data-update or api-call inside invoke, the event call inside event
\* forwarding), the invoke or the event forwarding still completes without an
\* error and the element ends with every original restored.
C11_ReentrantDisposeSafe ==
  (last.reenter # "" /\ CallsOn("port", last.reenter) # << >>) =>
    /\ last.err = NoError
    /\ \A n \in Names :
         Fwd(last.a, n) \in forwarders =>
           handle[n] = players[last.a].captured[n]

\* C12: each of the two ways capability discovery fails (no element; an
\* element without a getApiInterface function) raises an error that differs
\* from the other one and carries the id of the Player that raised it.
C12_DiscoveryErrorsIdentify ==
  (last.op = "construct" /\ last.err # NoError) =>
    /\ last.err.kind =
         (IF elementKind = "absent" THEN "NotInitialized" ELSE "NoApiInterface")
    /\ last.err.id = PlayerId(last.a)

\* C13: a Player calls getApiInterface() once, whatever is invoked, registered
\* or forwarded from its construction to its disposal and after; the originals
\* invoke calls and disposal puts back are the ones that call captured, even
\* when the element's list or properties have changed since; and a discovery
\* attempted after disposal (a listener registration, entering the document)
\* fails with the not-initialized error.
C13_DiscoveredOnce ==
  /\ \A a \in Adapters : players[a].exists => discoveries[a] = 1
  /\ (last.op = "invoke" /\ last.name \notin ListenerNames) =>
       \A i \in 1..Len(last.calls) :
         last.calls[i].t = "native" =>
           Native(last.calls[i].ch) = players[last.a].captured[last.name]
  /\ (last.op = "dispose" /\ ~last.pre.disposed) =>
       \A n \in DOMAIN players[last.a].captured :
         handle[n] = players[last.a].captured[n]
  /\ (/\ last.pre.disposed
      /\ \/ last.op = "enterDocument"
         \/ last.op = "invoke" /\ last.name \in ListenerNames) =>
       /\ last.err = [kind |-> "NotInitialized", id |-> PlayerId(last.a)]
       /\ discoveries[last.a] = last.pre.discoveries

\* A Player is disposed after the element's list changed and after the page
\* replaced a property: the originals it captured are back on the element.
C13_Witness ==
  /\ last.op = "dispose"
  /\ ~last.pre.disposed
  /\ DOMAIN players[last.a].captured # apiList
  /\ \E n \in ReplaceableNames :
       last.pre.handle[n] = Replacement /\ handle[n] = Native(n)
  /\ discoveries[last.a] = 1

\* The event kind the port is told for each forwarded native event, and the
\* fields sent after it, as the specification's table gives them.
C14_Kind ==
  [onReady |-> "ready", onVolumeChange |-> "volume-change",
   onFullscreenChange |-> "fullscreen-change",
   onPlaybackQualityChange |-> "quality-change",
   onPlaybackRateChange |-> "rate-change", onApiChange |-> "api-change",
   onError |-> "error", SIZE_CLICKED |-> "size-change",
   onSharePanelOpened |-> "share-panel-opened",
   onVideoDataChange |-> "video-data-change",
   onPlaylistUpdate |-> "playlist-update",
   onCueRangeEnter |-> "cue-range-enter", onCueRangeExit |-> "cue-range-exit",
   CONNECTION_ISSUE |-> "connection-issue", SHARE_CLICKED |-> "share-clicked",
   onLoadProgress |-> "load-progress", onVideoProgress |-> "video-progress",
   onReloadRequired |-> "reload-required"]

C14_Fields(ev, detail) ==
  IF ev = "onVolumeChange" THEN <<detail.volume, detail.muted>>
  ELSE IF ev = "onFullscreenChange" THEN <<detail.fullscreen>>
  ELSE IF ev = "onVideoDataChange" THEN <<detail.type, detail.playertype>>
  ELSE IF ev \in {"onPlaybackQualityChange", "onPlaybackRateChange", "onError",
                  "SIZE_CLICKED", "onCueRangeEnter", "onCueRangeExit",
                  "onLoadProgress", "onVideoProgress"} THEN <<detail>>
  ELSE << >>

\* C14: each forwarded native event makes exactly one port call, on the event
\* channel, with the Player's id, the one event kind the table gives for the
\* native name, and the fields the table gives, taken from the event's detail.
C14_ForwardedEvents ==
  (last.op = "event" /\ last.name \in DOMAIN C14_Kind) =>
    CallsOfKind("port") =
      << PortCall("player#event",
                  <<PlayerId(last.a), C14_Kind[last.name]>>
                    \o C14_Fields(last.name, last.detail)) >>

\* A video-data-change was forwarded with its two fields.
C14_Witness ==
  /\ last.op = "event"
  /\ last.name = "onVideoDataChange"
  /\ CallsOfKind("port") =
       << PortCall("player#event",
                   <<PlayerId(last.a), "video-data-change", "newdata", "1">>) >>

\* The native events the Player only logs.
C15_LoggedOnly ==
  {"onDetailedError", "onCueRangeMarkersUpdated", "onPlaybackAudioChange",
   "WATCH_LATER_VIDEO_ADDED", "WATCH_LATER_VIDEO_REMOVED", "WATCH_LATER_ERROR"}

\* C15: a detailed-error, cue-range-markers-updated, playback-audio-change or
\* watch-later (added, removed, error) native event is logged only: the Player
\* calls the port on no channel and never prevents the event's default.
C15_LoggedEventsSilent ==
  (last.op = "event" /\ last.name \in C15_LoggedOnly) =>
    /\ last.calls = << >>
    /\ last.err = NoError

\* Each of the logged-only events has been delivered to a subscribed Player.
C15_Witness ==
  /\ last.op = "event"
  /\ last.name = "onDetailedError"
  /\ players[last.a].subscribed
  /\ last.calls = << >>

\* C16: when an invoke of a data-load name gets no opinion from the port on
\* "player#api-call", the original is called exactly once, its first argument
\* is the value that was sent on "player#api-call" (what data-update returned,
\* or X when it returned none), the other arguments are unchanged, and the
\* invoke returns the original's result.
C16_DataLoadForwardsTransformed ==
  (/\ last.op = "invoke"
   /\ last.name \in DataLoadNames
   /\ CallsOn("port", "player#api-call") # << >>
   /\ ~last.env.apiCall.defined) =>
    LET sent == CallsOn("port", "player#api-call")[1].args
        x == Arg(last.args, 1)
    IN /\ CallsOfKind("native") =
            << NativeCall(last.name, SubSeq(sent, 3, Len(sent))) >>
       /\ sent[3] = (IF Truthy(last.env.dataUpdate) THEN last.env.dataUpdate ELSE x)
       /\ last.ret = last.env.nativeResult
       /\ last.err = NoError

\* The port transformed the data and gave no opinion: the original got the
\* transformed data.
C16_Witness ==
  /\ last.op = "invoke"
  /\ last.name = "cueVideoByPlayerVars"
  /\ last.args = <<"data1">>
  /\ last.env.dataUpdate = "data2"
  /\ ~last.env.apiCall.defined
  /\ CallsOfKind("native") = << NativeCall("cueVideoByPlayerVars", <<"data2">>) >>
  /\ last.ret = "nativeResult"

\* What C17 says of one invoke of destroy.
C17_Body ==
  /\ CallsOfKind("native") = << NativeCall("destroy", last.args) >>
  /\ \E i, j \in 1..Len(last.calls) :
       /\ i < j
       /\ last.calls[i] = PortCall("player#event", <<PlayerId(last.a), "destroy">>)
       /\ last.calls[j].t = "native"
  /\ last.ret = last.env.nativeResult
  /\ last.err = NoError

\* C17 as stated: every invoke of destroy, in any state of the Player.
C17_AnyState ==
  (last.op = "invoke" /\ last.name = "destroy") => C17_Body

\* C17, amended: while the Player is not disposed, an invoke of destroy calls
\* the original destroy exactly once with the invoke's arguments, after the
\* destroy event was sent to the port and whatever the port answered, and
\* returns the original's result.
C17_DestroyCallsOriginal ==
  (last.op = "invoke" /\ last.name = "destroy" /\ ~last.pre.disposed)
    => C17_Body

\* The port answered true to the destroy event and the original still ran.
C17_Witness ==
  /\ last.op = "invoke"
  /\ last.name = "destroy"
  /\ ~last.pre.disposed
  /\ last.env.event = "true"
  /\ last.args = <<"arg1">>
  /\ CallsOfKind("native") = << NativeCall("destroy", <<"arg1">>) >>

\* C18: a construction that fails, because there is no element or because the
\* element has no getApiInterface function, leaves every property of the
\* element as it was, installs no forwarding function, and calls the port on
\* no channel.
C18_FailedConstructNoEffect ==
  (last.op = "construct" /\ last.err # NoError) =>
    /\ handle = last.pre.handle
    /\ \A n \in Names :
         Fwd(last.a, n) \notin forwarders /\ handle[n] # Fwd(last.a, n)
    /\ last.calls = << >>
    /\ ~players[last.a].exists

\* A construction failed on an element without getApiInterface.
C18_Witness ==
  /\ last.op = "construct"
  /\ last.err.kind = "NoApiInterface"
  /\ elementKind = "noInterface"
  /\ handle = [n \in Names |-> Native(n)]

\* The second Player was constructed on the element while the first one was
\* shadowing it.
C19_Stacked ==
  /\ players[1].exists
  /\ players[2].exists
  /\ \A n \in apiList : players[2].captured[n] = Fwd(1, n)

\* C19: of two Players constructed one after the other on the same element,
\* the second captures the forwarding functions of the first as its originals;
\* and once both are disposed, every property of the element is the callable
\* it was before any Player exactly when the second was disposed first and the
\* first last.
C19_ReverseOrderRestores ==
  /\ (last.op = "construct" /\ last.err = NoError /\ last.a = 2 /\ Live(1)) =>
       C19_Stacked
  /\ (/\ C19_Stacked
      /\ players[1].disposed
      /\ players[2].disposed
      /\ last.op = "dispose"
      /\ ~last.pre.disposed
      /\ last.a \in {1, 2}) =>
       (handle = [n \in Names |-> Native(n)] <=> last.a = 1)

\* Two stacked Players were disposed second first, first last: the element
\* went from the first Player's forwarding functions to its native methods.
C19_Witness ==
  /\ C19_Stacked
  /\ players[2].disposed
  /\ last.op = "dispose"
  /\ last.a = 1
  /\ ~last.pre.disposed
  /\ \A n \in apiList : last.pre.handle[n] = Fwd(1, n)
  /\ handle = [n \in Names |-> Native(n)]

====
